---- MODULE Spec2Model ----
(***************************************************************************)
(* Orchestrator.execute of control_plane.py: sequential execution of a     *)
(* service graph in the order of nx.topological_sort, with the fallback    *)
(* lookup on the first inbound edge.  One run of execute is modelled; the  *)
(* graph description, the initial payload and the behaviour of the remote  *)
(* endpoints are inputs drawn from bounded sets.                           *)
(***************************************************************************)
EXTENDS Integers, Sequences, FiniteSets, TLC

VARIABLES graph, payload, svc,
          pc, exc, name, inputs, fallback,
          results, errors,
          indegree_map, zero_indegree, this_generation,
          calls,
          other,
          inflight

vars == <<graph, payload, svc, pc, exc, name, inputs, fallback, results, errors,
          indegree_map, zero_indegree, this_generation, calls, other, inflight>>

\* ------------------------------------------------------------------ bounds

\* Longest edge list of a graph description drawn by Init.
MaxEdges == 2

\* ------------------------------------------------------------------ values

\* Python None, as a JSON value and as "no current node".
NoneV == [kind |-> "null"]

\* A JSON string.
Str(s) == [kind |-> "str", s |-> s]

\* A JSON object with the single key "fallback".
Dict(s) == [kind |-> "dict", d |-> [fallback |-> Str(s)]]

\* A JSON number of the initial payload.
Lit(i) == [kind |-> "lit", v |-> i]

\* resp.json() of a successful call: the stub answers with its own address
\* and the request body it received.
Out(ep, body) == [kind |-> "out", ep |-> ep, body |-> body]

\* The empty dict {}.
EmptyDict == [k \in {} |-> NoneV]

\* d[k] = v on a dict.
Put(d, k, v) == [x \in DOMAIN d \cup {k} |-> IF x = k THEN v ELSE d[x]]

\* d.get(k): None when the key is absent.
Get(d, k) == IF k \in DOMAIN d THEN d[k] ELSE NoneV

Range(s) == {s[i] : i \in 1..Len(s)}

\* Append x unless it is already there (dict insertion order).
AppendNew(s, x) == IF x \in Range(s) THEN s ELSE Append(s, x)

\* ------------------------------------------------------------------ inputs

Names == {"A", "B", "fallback"}

\* The primary endpoint each node description carries.
EndpointOf == [A |-> "epA", B |-> "epB", fallback |-> "epF"]

FallbackEndpoint == "fb"

Endpoints == {EndpointOf[n] : n \in Names} \cup {FallbackEndpoint}

\* The "inputs" mappings a node description may carry: none, or one key fed
\* by node A, one by the node named fallback, one by the payload key p and
\* one that nothing provides.
InputSpecs == {EmptyDict, [a |-> "A", f |-> "fallback", p |-> "p", z |-> "z"]}

\* The node lists of the graph descriptions.
NodeLists == {<<"A", "B">>, <<"A", "B", "fallback">>}

\* edge.get("fallback"): absent, an endpoint, or an object.
FallbackValues == {NoneV, Str(FallbackEndpoint), Dict(FallbackEndpoint)}

\* The (from, to) pairs of the edge descriptions: a chain, a self-loop, two
\* edges into one node and one back out of it.
EdgePairs == {<<"A", "B">>, <<"B", "B">>, <<"A", "fallback">>,
              <<"B", "fallback">>, <<"fallback", "B">>}

EdgeSpecs == {[from |-> e[1], to |-> e[2], fallback |-> fb] :
                 e \in EdgePairs, fb \in FallbackValues}

RECURSIVE SeqsUpTo(_, _)
SeqsUpTo(S, n) ==
    IF n = 0 THEN {<<>>}
    ELSE LET shorter == SeqsUpTo(S, n - 1)
         IN  shorter \cup {Append(s, x) : s \in {t \in shorter : Len(t) = n - 1}, x \in S}

EdgeLists == SeqsUpTo(EdgeSpecs, MaxEdges)

\* The initial payloads: key p, and a key that is also a node's name.
Payloads == {[p |-> Lit(1), A |-> Lit(2)]}

\* ------------------------------------------------------------------ graph (nx.DiGraph)

\* G.add_node(node["name"], **node) / G.add_edge(from, to, ...): the node
\* names in insertion order; add_edge creates the nodes it does not know.
RECURSIVE EdgeNodes(_, _)
EdgeNodes(acc, es) ==
    IF es = <<>> THEN acc
    ELSE EdgeNodes(AppendNew(AppendNew(acc, es[1].from), es[1].to), Tail(es))

RECURSIVE DeclaredNodes(_, _)
DeclaredNodes(acc, ns) ==
    IF ns = <<>> THEN acc
    ELSE DeclaredNodes(AppendNew(acc, ns[1].name), Tail(ns))

GNodes(g) == EdgeNodes(DeclaredNodes(<<>>, g.nodes), g.edges)

\* G.nodes[n]: the attribute dict; the last description of a name wins, a
\* node created by add_edge has no attribute.
RECURSIVE NodeAttrs(_, _)
NodeAttrs(ns, n) ==
    IF ns = <<>> THEN EmptyDict
    ELSE IF ns[Len(ns)].name = n
         THEN LET d == ns[Len(ns)]
              IN  [endpoint |-> Str(d.endpoint), inputs |-> d.inputs, fallback |-> d.fallback]
         ELSE NodeAttrs(SubSeq(ns, 1, Len(ns) - 1), n)

\* G.edges[(u, v)]: the attribute dict of the edge; the last add_edge wins.
RECURSIVE EdgeAttrs(_, _, _)
EdgeAttrs(es, u, v) ==
    IF es[Len(es)].from = u /\ es[Len(es)].to = v
    THEN [fallback |-> es[Len(es)].fallback]
    ELSE EdgeAttrs(SubSeq(es, 1, Len(es) - 1), u, v)

\* G.in_edges(n): the predecessors in the order their edges were first added.
RECURSIVE Preds(_, _, _)
Preds(acc, es, n) ==
    IF es = <<>> THEN acc
    ELSE Preds(IF es[1].to = n THEN AppendNew(acc, es[1].from) ELSE acc, Tail(es), n)

in_edges_of(g, n) == Preds(<<>>, g.edges, n)

\* G.neighbors(n): the successors in the order their edges were first added.
RECURSIVE Succs(_, _, _)
Succs(acc, es, n) ==
    IF es = <<>> THEN acc
    ELSE Succs(IF es[1].from = n THEN AppendNew(acc, es[1].to) ELSE acc, Tail(es), n)

neighbors(g, n) == Succs(<<>>, g.edges, n)

in_degree(g, n) == Len(in_edges_of(g, n))

\* ------------------------------------------------------------------ nx.topological_sort

\* The generator of nx.topological_generations before its first step:
\* indegree_map = {v: d for v, d in G.in_degree() if d > 0} and
\* zero_indegree = [v for v, d in G.in_degree() if d == 0].
InitIndegreeMap(g) ==
    [v \in {w \in Range(GNodes(g)) : in_degree(g, w) > 0} |-> in_degree(g, v)]

InitZeroIndegree(g) == SelectSeq(GNodes(g), LAMBDA v : in_degree(g, v) = 0)

\* for child in G.neighbors(node): indegree_map[child] -= 1; a child that
\* reaches 0 is appended to zero_indegree and deleted from the map.
RECURSIVE VisitChildren(_, _)
VisitChildren(cs, st) ==
    IF cs = <<>> THEN st
    ELSE LET c == cs[1]
             d == st.indeg[c] - 1
         IN  VisitChildren(Tail(cs),
                 IF d = 0
                 THEN [indeg |-> [v \in DOMAIN st.indeg \ {c} |-> st.indeg[v]],
                       zero  |-> Append(st.zero, c)]
                 ELSE [indeg |-> [st.indeg EXCEPT ![c] = d], zero |-> st.zero])

\* for node in this_generation: visit its children.
RECURSIVE VisitGeneration(_, _, _)
VisitGeneration(g, gen, st) ==
    IF gen = <<>> THEN st
    ELSE VisitGeneration(g, Tail(gen), VisitChildren(neighbors(g, gen[1]), st))

\* A topological_sort that forgets the in-degree counts: once the first
\* generation is out, every remaining node follows in insertion order.
TopoNextUnordered(g, gen, indeg, zero) ==
    IF gen # <<>>
    THEN [kind |-> "yield", node |-> Head(gen), gen |-> Tail(gen),
          indeg |-> indeg, zero |-> zero]
    ELSE IF zero # <<>>
    THEN LET rest == SelectSeq(GNodes(g), LAMBDA v : v \in DOMAIN indeg)
         IN  [kind |-> "yield", node |-> Head(zero), gen |-> Tail(zero) \o rest,
              indeg |-> EmptyDict, zero |-> <<>>]
    ELSE [kind |-> "stop", node |-> "", gen |-> gen, indeg |-> indeg, zero |-> zero]

\* One next() on the generator of nx.topological_sort(G): the node it yields
\* and the generator's state after it, or how the iteration ends.
TopoNext(g, gen, indeg, zero) ==
    IF gen # <<>>
    THEN [kind |-> "yield", node |-> Head(gen), gen |-> Tail(gen),
          indeg |-> indeg, zero |-> zero]
    ELSE IF zero # <<>>
    THEN LET st == VisitGeneration(g, zero, [indeg |-> indeg, zero |-> <<>>])
         IN  [kind |-> "yield", node |-> Head(zero), gen |-> Tail(zero),
              indeg |-> st.indeg, zero |-> st.zero]
    ELSE [kind |-> IF DOMAIN indeg # {} THEN "unfeasible" ELSE "stop",
          node |-> "", gen |-> gen, indeg |-> indeg, zero |-> zero]

\* ------------------------------------------------------------------ execute

\* An input resolution that asks the payload first: payload.get(v, results.get(v)).
ResolveInputsPayloadFirst(spec, res, pl) ==
    [k \in DOMAIN spec |->
        IF spec[k] \in DOMAIN pl THEN pl[spec[k]] ELSE Get(res, spec[k])]

\* inputs = {k: results.get(v, payload.get(v)) for k, v in node["inputs"].items()}
ResolveInputs(spec, res, pl) ==
    [k \in DOMAIN spec |->
        IF spec[k] \in DOMAIN res THEN res[spec[k]] ELSE Get(pl, spec[k])]

\* str(e) of a failed call, and the text appended after a failed fallback.
CallError(ep) == [tag |-> "error", ep |-> ep]
FallbackFailed(ep) == [tag |-> "fallback failed", ep |-> ep]

\* in_edges = list(G.in_edges(name)); fallback = None;
\* if in_edges: fallback = G.edges[in_edges[0]][name].get("fallback")
\* The edge's attribute dict is indexed with the node's name (KeyError unless
\* the name is a key of it) and .get is called on what that yields
\* (AttributeError unless it is a dict).
FallbackLookup(g, n) ==
    LET in_edges == in_edges_of(g, n)
    IN  IF in_edges = <<>> THEN [exc |-> "none", value |-> NoneV]
        ELSE LET attrs == EdgeAttrs(g.edges, in_edges[1], n)
             IN  IF n \notin DOMAIN attrs THEN [exc |-> "KeyError", value |-> NoneV]
                 ELSE IF attrs[n].kind # "dict"
                      THEN [exc |-> "AttributeError", value |-> NoneV]
                      ELSE [exc |-> "none", value |-> Get(attrs[n].d, "fallback")]

\* The record of one self.client.post(url, json=body, timeout=5.0).
Call(n, kind, ep, body) == [node |-> n, kind |-> kind, ep |-> ep, body |-> body]

service_url == NodeAttrs(graph.nodes, name)["endpoint"].s

step == TopoNext(graph, this_generation, indegree_map, zero_indegree)

GenState(st) ==
    /\ this_generation' = st.gen
    /\ indegree_map' = st.indeg
    /\ zero_indegree' = st.zero

\* A dispatch that merges the resolved inputs into the caller's payload
\* (payload.update(inputs)) before posting them.
DispatchUpdatesPayload ==
    /\ pc = "loop"
    /\ step.kind = "yield"
    /\ LET node == NodeAttrs(graph.nodes, step.node)
       IN  /\ "endpoint" \in DOMAIN node
           /\ name' = step.node
           /\ inputs' = ResolveInputs(node["inputs"], results, payload)
           /\ calls' = Append(calls, Call(step.node, "primary", node["endpoint"].s, inputs'))
    /\ payload' = [k \in DOMAIN payload \cup DOMAIN inputs' |->
                      IF k \in DOMAIN inputs' THEN inputs'[k] ELSE payload[k]]
    /\ GenState(step)
    /\ pc' = "primary"
    /\ UNCHANGED <<inflight, other, graph, svc, exc, fallback, results, errors>>

\* for name in nx.topological_sort(G): node = G.nodes[name];
\* service_url = node["endpoint"]; inputs = ...; await self.client.post(...)
Dispatch ==
    /\ pc = "loop"
    /\ step.kind = "yield"
    /\ LET node == NodeAttrs(graph.nodes, step.node)
       IN  /\ "endpoint" \in DOMAIN node
           /\ name' = step.node
           /\ inputs' = ResolveInputs(node["inputs"], results, payload)
           /\ calls' = Append(calls, Call(step.node, "primary", node["endpoint"].s, inputs'))
    /\ GenState(step)
    /\ pc' = "primary"
    /\ UNCHANGED <<inflight, other, graph, payload, svc, exc, fallback, results, errors>>

\* node["endpoint"] on a node that add_edge created: KeyError leaves execute.
MissingEndpoint ==
    /\ pc = "loop"
    /\ step.kind = "yield"
    /\ "endpoint" \notin DOMAIN NodeAttrs(graph.nodes, step.node)
    /\ name' = step.node
    /\ GenState(step)
    /\ pc' = "raised"
    /\ exc' = "KeyError"
    /\ UNCHANGED <<inflight, other, graph, payload, svc, inputs, fallback, results, errors, calls>>

\* The generator ends with indegree_map not empty: nx.NetworkXUnfeasible.
CycleFound ==
    /\ pc = "loop"
    /\ step.kind = "unfeasible"
    /\ pc' = "raised"
    /\ exc' = "NetworkXUnfeasible"
    /\ UNCHANGED <<inflight, other, graph, payload, svc, name, inputs, fallback, results, errors,
                   indegree_map, zero_indegree, this_generation, calls>>

\* return ExecuteResponse(results=results, errors=errors)
Return ==
    /\ pc = "loop"
    /\ step.kind = "stop"
    /\ pc' = "returned"
    /\ UNCHANGED <<inflight, other, graph, payload, svc, exc, name, inputs, fallback, results, errors,
                   indegree_map, zero_indegree, this_generation, calls>>

\* A success whose response is dropped: nothing is recorded for the node.
PrimaryOkDropsResult ==
    /\ pc = "primary"
    /\ svc[service_url] = "ok"
    /\ pc' = "loop"
    /\ UNCHANGED <<inflight, other, graph, payload, svc, exc, name, inputs, fallback, results, errors,
                   indegree_map, zero_indegree, this_generation, calls>>

\* A success that stores the request body where the response belongs.
PrimaryOkStoresRequest ==
    /\ pc = "primary"
    /\ svc[service_url] = "ok"
    /\ results' = Put(results, name, inputs)
    /\ pc' = "loop"
    /\ UNCHANGED <<inflight, other, graph, payload, svc, exc, name, inputs, fallback, errors,
                   indegree_map, zero_indegree, this_generation, calls>>

\* resp.raise_for_status() passes: results[name] = resp.json()
PrimaryOk ==
    /\ pc = "primary"
    /\ svc[service_url] = "ok"
    /\ results' = Put(results, name, Out(service_url, inputs))
    /\ pc' = "loop"
    /\ UNCHANGED <<inflight, other, graph, payload, svc, exc, name, inputs, fallback, errors,
                   indegree_map, zero_indegree, this_generation, calls>>

\* except Exception as e: errors[name] = str(e); the lookup itself raises.
PrimaryFailLookupRaises ==
    /\ pc = "primary"
    /\ svc[service_url] = "fail"
    /\ FallbackLookup(graph, name).exc # "none"
    /\ errors' = Put(errors, name, <<CallError(service_url)>>)
    /\ pc' = "raised"
    /\ exc' = FallbackLookup(graph, name).exc
    /\ UNCHANGED <<inflight, other, graph, payload, svc, name, inputs, fallback, results,
                   indegree_map, zero_indegree, this_generation, calls>>

\* A failure without fallback that is recorded and left behind: the loop
\* goes on with the next node instead of raising.
PrimaryFailNoFallbackContained ==
    /\ pc = "primary"
    /\ svc[service_url] = "fail"
    /\ FallbackLookup(graph, name).exc = "none"
    /\ FallbackLookup(graph, name).value = NoneV
    /\ errors' = Put(errors, name, <<CallError(service_url)>>)
    /\ fallback' = NoneV
    /\ pc' = "loop"
    /\ UNCHANGED <<inflight, other, graph, payload, svc, exc, name, inputs, results,
                   indegree_map, zero_indegree, this_generation, calls>>

\* ... else: raise HTTPException(status_code=502, ...)
PrimaryFailNoFallback ==
    /\ pc = "primary"
    /\ svc[service_url] = "fail"
    /\ FallbackLookup(graph, name).exc = "none"
    /\ FallbackLookup(graph, name).value = NoneV
    /\ errors' = Put(errors, name, <<CallError(service_url)>>)
    /\ fallback' = NoneV
    /\ pc' = "raised"
    /\ exc' = "HTTPException"
    /\ UNCHANGED <<inflight, other, graph, payload, svc, name, inputs, results,
                   indegree_map, zero_indegree, this_generation, calls>>

\* A primary failure that leaves a placeholder in results before the fallback
\* is tried (results[name] = None).
PrimaryFailTryFallbackWritesResult ==
    /\ pc = "primary"
    /\ svc[service_url] = "fail"
    /\ FallbackLookup(graph, name).exc = "none"
    /\ FallbackLookup(graph, name).value # NoneV
    /\ errors' = Put(errors, name, <<CallError(service_url)>>)
    /\ results' = Put(results, name, NoneV)
    /\ fallback' = FallbackLookup(graph, name).value
    /\ calls' = Append(calls, Call(name, "fallback", fallback'.s, inputs))
    /\ pc' = "fallback"
    /\ UNCHANGED <<inflight, other, graph, payload, svc, exc, name, inputs,
                   indegree_map, zero_indegree, this_generation>>

\* A fallback call that is sent without the inputs resolved for the node.
PrimaryFailTryFallbackNoBody ==
    /\ pc = "primary"
    /\ svc[service_url] = "fail"
    /\ FallbackLookup(graph, name).exc = "none"
    /\ FallbackLookup(graph, name).value # NoneV
    /\ errors' = Put(errors, name, <<CallError(service_url)>>)
    /\ fallback' = FallbackLookup(graph, name).value
    /\ calls' = Append(calls, Call(name, "fallback", fallback'.s, EmptyDict))
    /\ pc' = "fallback"
    /\ UNCHANGED <<inflight, other, graph, payload, svc, exc, name, inputs, results,
                   indegree_map, zero_indegree, this_generation>>

\* ... if fallback: await self.client.post(fallback, json=inputs, timeout=5.0)
PrimaryFailTryFallback ==
    /\ pc = "primary"
    /\ svc[service_url] = "fail"
    /\ FallbackLookup(graph, name).exc = "none"
    /\ FallbackLookup(graph, name).value # NoneV
    /\ errors' = Put(errors, name, <<CallError(service_url)>>)
    /\ fallback' = FallbackLookup(graph, name).value
    /\ calls' = Append(calls, Call(name, "fallback", fallback'.s, inputs))
    /\ pc' = "fallback"
    /\ UNCHANGED <<inflight, other, graph, payload, svc, exc, name, inputs, results,
                   indegree_map, zero_indegree, this_generation>>

\* The fallback answers: results[name] = resp.json()
FallbackOk ==
    /\ pc = "fallback"
    /\ svc[fallback.s] = "ok"
    /\ results' = Put(results, name, Out(fallback.s, inputs))
    /\ pc' = "loop"
    /\ UNCHANGED <<inflight, other, graph, payload, svc, exc, name, inputs, fallback, errors,
                   indegree_map, zero_indegree, this_generation, calls>>

\* A failed fallback that ends the run instead of being recorded.
FallbackFailRaises ==
    /\ pc = "fallback"
    /\ svc[fallback.s] = "fail"
    /\ pc' = "raised"
    /\ exc' = "HTTPException"
    /\ UNCHANGED <<inflight, other, graph, payload, svc, name, inputs, fallback, results, errors,
                   indegree_map, zero_indegree, this_generation, calls>>

\* A failed fallback whose text replaces the primary failure reason (= for +=).
FallbackFailOverwrites ==
    /\ pc = "fallback"
    /\ svc[fallback.s] = "fail"
    /\ errors' = [errors EXCEPT ![name] = <<FallbackFailed(fallback.s)>>]
    /\ pc' = "loop"
    /\ UNCHANGED <<inflight, other, graph, payload, svc, exc, name, inputs, fallback, results,
                   indegree_map, zero_indegree, this_generation, calls>>

\* except Exception as e2: errors[name] += f"; fallback failed: {e2}"
FallbackFail ==
    /\ pc = "fallback"
    /\ svc[fallback.s] = "fail"
    /\ errors' = [errors EXCEPT ![name] = Append(@, FallbackFailed(fallback.s))]
    /\ pc' = "loop"
    /\ UNCHANGED <<inflight, other, graph, payload, svc, exc, name, inputs, fallback, results,
                   indegree_map, zero_indegree, this_generation, calls>>

\* ------------------------------------------------------------------ specification

\* The node descriptions of a graph: every node of the list with its primary
\* endpoint, the same inputs mapping and the same "fallback" field.
NodeSpecs(ns, ins, fb) ==
    [i \in 1..Len(ns) |->
        [name |-> ns[i], endpoint |-> EndpointOf[ns[i]], inputs |-> ins, fallback |-> fb]]

Graphs ==
    {[nodes |-> NodeSpecs(ns, ins, fb), edges |-> es] :
        ns \in NodeLists, ins \in InputSpecs,
        fb \in {NoneV, Str(FallbackEndpoint)}, es \in EdgeLists}

\* The locals of execute at its first loop iteration (lines 94-105), for the
\* request already held in graph and payload.
Start ==
    /\ svc \in [Endpoints -> {"ok", "fail"}]
    /\ pc = "loop"
    /\ exc = "none"
    /\ name = ""
    /\ inputs = EmptyDict
    /\ fallback = NoneV
    /\ results = EmptyDict
    /\ errors = EmptyDict
    /\ indegree_map = InitIndegreeMap(graph)
    /\ zero_indegree = InitZeroIndegree(graph)
    /\ this_generation = <<>>
    /\ calls = <<>>

\* No second request is being served.
NoRun == [pc |-> "none"]

Init ==
    /\ graph \in Graphs
    /\ payload \in Payloads
    /\ Start
    /\ other = NoRun
    /\ inflight = EmptyDict

Next ==
    \/ Dispatch
    \/ MissingEndpoint
    \/ CycleFound
    \/ Return
    \/ PrimaryOk
    \/ PrimaryFailLookupRaises
    \/ PrimaryFailNoFallback
    \/ PrimaryFailTryFallback
    \/ FallbackOk
    \/ FallbackFail

Spec == Init /\ [][Next]_vars

\* A core family of graphs for the specifications that add to Next or check
\* liveness: both node lists, the inputs mapping
\* that names upstream results, and edge lists up to MaxEdges over a dependency
\* (A -> B), a self-loop (B -> B) and an edge into "fallback" (dangling when the
\* node is not declared), each edge with no fallback or with an object, the two
\* kinds of value line 119 tells apart.
CoreEdgeSpecs ==
    {[from |-> e[1], to |-> e[2], fallback |-> f] :
        e \in {<<"A", "B">>, <<"B", "B">>, <<"A", "fallback">>},
        f \in {NoneV, Dict(FallbackEndpoint)}}

CoreGraphs ==
    {[nodes |-> NodeSpecs(ns, [a |-> "A", f |-> "fallback", p |-> "p", z |-> "z"], NoneV),
      edges |-> es] :
        ns \in NodeLists, es \in SeqsUpTo(CoreEdgeSpecs, MaxEdges)}

CoreInit ==
    /\ graph \in CoreGraphs
    /\ payload \in Payloads
    /\ Start
    /\ other = NoRun
    /\ inflight = EmptyDict

\* Every awaited call is answered (timeout=5.0 bounds the wait) and the event
\* loop resumes execute after each answer: a step that can be taken is taken.
FairSpec == CoreInit /\ [][Next]_vars /\ WF_vars(Next)

\* The task running execute is cancelled (client gone, caller timeout) while it
\* awaits a post: asyncio raises CancelledError at the await of line 109 or
\* 123.  CancelledError is a BaseException (Python 3.8 and later), so neither
\* "except Exception" catches it and it leaves execute and run_graph.
Cancel ==
    /\ pc \in {"primary", "fallback"}
    /\ pc' = "raised"
    /\ exc' = "CancelledError"
    /\ UNCHANGED <<inflight, other, graph, payload, svc, name, inputs, fallback, results, errors,
                   indegree_map, zero_indegree, this_generation, calls>>

NextCancel == Next \/ Cancel

SpecCancel == CoreInit /\ [][NextCancel]_vars

\* ------------------------------------------------------------------ two requests

\* orch = Orchestrator() is one object for every request (line 138), and each
\* POST /execute runs orch.execute in a task of its own on one event loop
\* (lines 144-146).  The variables graph .. calls hold the locals of the task
\* that is running; other holds the locals of the second task, suspended at
\* an await or not yet started.
Frame ==
    [graph |-> graph, payload |-> payload, pc |-> pc, exc |-> exc, name |-> name,
     inputs |-> inputs, fallback |-> fallback, results |-> results, errors |-> errors,
     indegree_map |-> indegree_map, zero_indegree |-> zero_indegree,
     this_generation |-> this_generation, calls |-> calls]

\* The locals of a call of execute(g, pl) before its first loop iteration.
StartFrame(g, pl) ==
    [graph |-> g, payload |-> pl, pc |-> "loop", exc |-> "none", name |-> "",
     inputs |-> EmptyDict, fallback |-> NoneV, results |-> EmptyDict, errors |-> EmptyDict,
     indegree_map |-> InitIndegreeMap(g), zero_indegree |-> InitZeroIndegree(g),
     this_generation |-> <<>>, calls |-> <<>>]

\* An Orchestrator that keeps results on the object (self.results): the task
\* that resumes finds the results the other task left.
SwitchKeepsResults ==
    /\ other.pc \notin {"none", "returned", "raised"}
    /\ pc \in {"primary", "fallback", "returned", "raised"}
    /\ other' = Frame
    /\ graph' = other.graph
    /\ payload' = other.payload
    /\ pc' = other.pc
    /\ exc' = other.exc
    /\ name' = other.name
    /\ inputs' = other.inputs
    /\ fallback' = other.fallback
    /\ errors' = other.errors
    /\ indegree_map' = other.indegree_map
    /\ zero_indegree' = other.zero_indegree
    /\ this_generation' = other.this_generation
    /\ calls' = other.calls
    /\ UNCHANGED <<svc, results, inflight>>

\* An Orchestrator that keeps errors on the object (self.errors).
SwitchKeepsErrors ==
    /\ other.pc \notin {"none", "returned", "raised"}
    /\ pc \in {"primary", "fallback", "returned", "raised"}
    /\ other' = Frame
    /\ graph' = other.graph
    /\ payload' = other.payload
    /\ pc' = other.pc
    /\ exc' = other.exc
    /\ name' = other.name
    /\ inputs' = other.inputs
    /\ fallback' = other.fallback
    /\ results' = other.results
    /\ indegree_map' = other.indegree_map
    /\ zero_indegree' = other.zero_indegree
    /\ this_generation' = other.this_generation
    /\ calls' = other.calls
    /\ UNCHANGED <<svc, errors, inflight>>

\* The event loop runs the other task.  A task gives up the loop only where
\* it awaits (lines 109 and 123) or when execute has ended; everything the
\* task holds is a local of its own call of execute (lines 94-102), so the
\* other task finds its locals as it left them.
Switch ==
    /\ other.pc \notin {"none", "returned", "raised"}
    /\ pc \in {"primary", "fallback", "returned", "raised"}
    /\ other' = Frame
    /\ graph' = other.graph
    /\ payload' = other.payload
    /\ pc' = other.pc
    /\ exc' = other.exc
    /\ name' = other.name
    /\ inputs' = other.inputs
    /\ fallback' = other.fallback
    /\ results' = other.results
    /\ errors' = other.errors
    /\ indegree_map' = other.indegree_map
    /\ zero_indegree' = other.zero_indegree
    /\ this_generation' = other.this_generation
    /\ calls' = other.calls
    /\ UNCHANGED <<svc, inflight>>

\* The requests of the two-task specification: both node lists, the inputs
\* mapping that names upstream results, and no edge, a dependency, a
\* self-loop, or an edge into "fallback" that carries an object.
TwoEdgeLists ==
    {<<>>,
     <<[from |-> "A", to |-> "B", fallback |-> NoneV]>>,
     <<[from |-> "B", to |-> "B", fallback |-> NoneV]>>,
     <<[from |-> "A", to |-> "fallback", fallback |-> Dict(FallbackEndpoint)]>>}

TwoGraphs ==
    {[nodes |-> NodeSpecs(ns, [a |-> "A", f |-> "fallback", p |-> "p", z |-> "z"], NoneV),
      edges |-> es] :
        ns \in NodeLists, es \in TwoEdgeLists}

TwoPayloads == Payloads \cup {[p |-> Lit(3), z |-> Lit(4)]}

InitTwo ==
    /\ graph \in TwoGraphs
    /\ payload \in Payloads
    /\ Start
    /\ other \in {StartFrame(g, pl) : g \in TwoGraphs, pl \in TwoPayloads}
    /\ inflight = EmptyDict

NextTwo == Next \/ Switch

SpecTwo == InitTwo /\ [][NextTwo]_vars

\* execute(g, pl) run on its own from the generator state and the mappings in
\* st, against endpoints that answer as sv says: lines 104-131 in one go.
RECURSIVE RunLoop(_, _, _, _)
RunLoop(g, pl, sv, st) ==
    LET s == TopoNext(g, st.gen, st.indeg, st.zero)
        End(p, e, err) == [pc |-> p, exc |-> e, results |-> st.results, errors |-> err]
    IN  IF s.kind = "stop" THEN End("returned", "none", st.errors)
        ELSE IF s.kind = "unfeasible" THEN End("raised", "NetworkXUnfeasible", st.errors)
        ELSE LET node == NodeAttrs(g.nodes, s.node)
             IN  IF "endpoint" \notin DOMAIN node THEN End("raised", "KeyError", st.errors)
                 ELSE LET url == node["endpoint"].s
                          ins == ResolveInputs(node["inputs"], st.results, pl)
                          Go(res, err) ==
                              RunLoop(g, pl, sv,
                                      [gen |-> s.gen, indeg |-> s.indeg, zero |-> s.zero,
                                       results |-> res, errors |-> err])
                          err1 == Put(st.errors, s.node, <<CallError(url)>>)
                          fl == FallbackLookup(g, s.node)
                      IN  IF sv[url] = "ok"
                          THEN Go(Put(st.results, s.node, Out(url, ins)), st.errors)
                          ELSE IF fl.exc # "none" THEN End("raised", fl.exc, err1)
                          ELSE IF fl.value = NoneV THEN End("raised", "HTTPException", err1)
                          ELSE IF sv[fl.value.s] = "ok"
                          THEN Go(Put(st.results, s.node, Out(fl.value.s, ins)), err1)
                          ELSE Go(st.results,
                                  [err1 EXCEPT ![s.node] = Append(@, FallbackFailed(fl.value.s))])

RunAlone(g, pl, sv) ==
    RunLoop(g, pl, sv,
            [gen |-> <<>>, indeg |-> InitIndegreeMap(g), zero |-> InitZeroIndegree(g),
             results |-> EmptyDict, errors |-> EmptyDict])

\* How a call of execute ended and the mappings it held then.
Outcome(f) == [pc |-> f.pc, exc |-> f.exc, results |-> f.results, errors |-> f.errors]

\* ------------------------------------------------------------------ vocabulary of the claims

\* The nodes of G and the sources of a node's inbound edges.
Nodes == Range(GNodes(graph))
PredSet(n) == {e.from : e \in {x \in Range(graph.edges) : x.to = n}}
Declared == {graph.nodes[i].name : i \in 1..Len(graph.nodes)}

\* u reaches v along at most k edges.
RECURSIVE Path(_, _, _)
Path(u, v, k) ==
    /\ k > 0
    /\ \E e \in Range(graph.edges) :
          e.from = u /\ (e.to = v \/ Path(e.to, v, k - 1))

Reaches(u, v) == Path(u, v, Cardinality(Names))
HasCycle == \E n \in Names : Reaches(n, n)
Dangling == \E e \in Range(graph.edges) : e.from \notin Declared \/ e.to \notin Declared
ValidDAG == ~HasCycle /\ ~Dangling

\* The calls issued for a node.
CallsOf(n, kind) == {i \in 1..Len(calls) : calls[i].node = n /\ calls[i].kind = kind}
Called(n) == CallsOf(n, "primary") # {}
InFlight(n) == name = n /\ pc \in {"primary", "fallback"}

\* A call has been answered unless it is the one execute is awaiting, or was
\* awaiting when it was cancelled.
Answered(i) ==
    i < Len(calls) \/ (pc \notin {"primary", "fallback"} /\ exc # "CancelledError")
CallOk(n, kind) ==
    \E i \in CallsOf(n, kind) : Answered(i) /\ svc[calls[i].ep] = "ok"
CallFailed(n, kind) ==
    \E i \in CallsOf(n, kind) : Answered(i) /\ svc[calls[i].ep] = "fail"

\* The terminal states of a node, told from what the endpoints answered: a
\* call of it (primary or fallback) succeeded, or its primary call failed
\* and its fallback call failed too or was never issued.
Succeeded(n) == CallOk(n, "primary") \/ CallOk(n, "fallback")
FallbackExhausted(n) == CallFailed(n, "primary") /\ CallFailed(n, "fallback")
Failed(n) ==
    /\ CallFailed(n, "primary")
    /\ CallsOf(n, "fallback") = {} \/ CallFailed(n, "fallback")
Terminal(n) == Succeeded(n) \/ Failed(n)

\* The fallback endpoints the graph description configures for a node: the
\* "fallback" field of its own description, those of its inbound edges.
OwnFallbacks(n) ==
    {x.fallback.s : x \in {y \in Range(graph.nodes) : y.name = n /\ y.fallback.kind = "str"}}
EdgeFallbacks(n) ==
    {x.fallback.s : x \in {y \in Range(graph.edges) : y.to = n /\ y.fallback.kind = "str"}}
ConfiguredFallbacks(n) == OwnFallbacks(n) \cup EdgeFallbacks(n)

\* Nothing at all sits in a fallback field of the node or of an inbound edge.
NoFallback(n) ==
    /\ \A x \in Range(graph.nodes) : x.name = n => x.fallback = NoneV
    /\ \A x \in Range(graph.edges) : x.to = n => x.fallback = NoneV

\* The sources named by the inputs mapping of a node.
InputSources(n) ==
    LET spec == Get(NodeAttrs(graph.nodes, n), "inputs")
    IN  IF spec = NoneV THEN {} ELSE {spec[k] : k \in DOMAIN spec}

PrimaryCall(n) == calls[CHOOSE i \in CallsOf(n, "primary") : TRUE]
Finished == pc \in {"returned", "raised"}

\* execute has raised out of the handling of node n (the cycle error of the
\* generator comes between two nodes and leaves name at the last one).
RaisedAt(n) == pc = "raised" /\ name = n /\ exc # "NetworkXUnfeasible"

\* ------------------------------------------------------------------ C1

\* C1: on a valid DAG, a step that issues the primary call of a node finds
\* every source of an inbound edge of that node in a terminal state.
C1_DispatchAfterPredecessors ==
    [][(ValidDAG /\ Len(calls') > Len(calls) /\ calls'[Len(calls')].kind = "primary")
          => \A p \in PredSet(calls'[Len(calls')].node) : Terminal(p)]_vars

\* A node with two predecessors has been dispatched on a valid DAG.
C1_Witness ==
    /\ ValidDAG
    /\ \E n \in Nodes : Called(n) /\ Cardinality(PredSet(n)) = 2

\* ------------------------------------------------------------------ C2

\* The annotation the report is said to add to a recovered failure.
Recovered == [tag |-> "recovered", ep |-> ""]

\* C2: once the primary call of a node has failed, a fallback is configured for
\* it and that fallback endpoint answers with success, the node succeeds:
\* execute does not raise at the node, results[name] is the fallback's output
\* for the same inputs and errors[name] is the primary failure reason
\* annotated as recovered.
C2_FallbackRecovers ==
    \A n \in Nodes :
        (/\ CallFailed(n, "primary")
         /\ ~InFlight(n)
         /\ ConfiguredFallbacks(n) # {}
         /\ \A ep \in ConfiguredFallbacks(n) : svc[ep] = "ok")
        => /\ ~RaisedAt(n)
           /\ n \in DOMAIN results
           /\ \E ep \in ConfiguredFallbacks(n) : results[n] = Out(ep, PrimaryCall(n).body)
           /\ n \in DOMAIN errors
           /\ errors[n] = <<CallError(PrimaryCall(n).ep), Recovered>>

\* ------------------------------------------------------------------ C3

\* The nodes that do not depend, directly or transitively, on node n.
Independent(n) == {m \in Nodes \ {n} : ~Reaches(n, m)}

\* C3 as claimed: at the end of a run on a valid DAG in which the primary call
\* of a node without fallback failed, every node that does not depend on it
\* has been dispatched, and is in results when its endpoint answers well.
C3_SiblingsStillRun ==
    (ValidDAG /\ Finished)
    => \A n \in Nodes :
          (CallFailed(n, "primary") /\ NoFallback(n))
          => \A m \in Independent(n) :
                /\ Called(m)
                /\ svc[PrimaryCall(m).ep] = "ok" => m \in DOMAIN results

\* C3 as amended: the failed primary call of a node without fallback ends the
\* run there: execute raises at that node, its call is the last one issued
\* and no report is returned.
C3_FailureWithoutFallbackAborts ==
    \A n \in Nodes :
        (CallFailed(n, "primary") /\ NoFallback(n))
        => /\ RaisedAt(n)
           /\ calls[Len(calls)] = PrimaryCall(n)
           /\ errors[n] = <<CallError(PrimaryCall(n).ep)>>

\* A node without fallback has failed on a valid DAG while a node that does
\* not depend on it was still to be dispatched.
C3_Witness ==
    /\ ValidDAG
    /\ \E n \in Nodes :
          /\ CallFailed(n, "primary") /\ NoFallback(n)
          /\ \E m \in Independent(n) : m \in Declared /\ ~Called(m)

\* ------------------------------------------------------------------ C4

\* The error entry a skipped node is said to get.
Skipped(p) == [tag |-> "skipped", ep |-> p]

\* The predecessors of n that ended Failed and that n's inputs name.
FailedSources(n) == {p \in PredSet(n) : Failed(p) /\ p \in InputSources(n)}

\* C4 as claimed: at the end of a run, a node whose inputs name a predecessor
\* that ended Failed has never been called and errors holds an entry for it
\* that references that predecessor.
C4_DependentSkipped ==
    Finished
    => \A n \in Nodes : \A p \in FailedSources(n) :
          /\ ~Called(n)
          /\ n \in DOMAIN errors
          /\ errors[n] = <<Skipped(p)>>

\* C4 as amended: a node is never skipped.  errors holds an entry for a node
\* only once its own primary call has failed; a predecessor that failed
\* without a fallback call has made execute raise, with no call issued for
\* the node; a predecessor whose fallback call failed too lets the run go on,
\* and in a run that returns the node has been called, the input fed by that
\* predecessor read from the payload (None when the payload has no such key).
C4_DependentNeverSkipped ==
    /\ \A n \in DOMAIN errors : CallFailed(n, "primary")
    /\ \A n \in Nodes : \A p \in FailedSources(n) :
          /\ ~FallbackExhausted(p) => (pc = "raised" /\ ~Called(n))
          /\ FallbackExhausted(p) => ~RaisedAt(p)
          /\ (FallbackExhausted(p) /\ pc = "returned")
             => /\ Called(n)
                /\ \A k \in DOMAIN PrimaryCall(n).body :
                      NodeAttrs(graph.nodes, n)["inputs"][k] = p
                      => PrimaryCall(n).body[k] = Get(payload, p)

\* A run has returned in which a node was called although the predecessor its
\* inputs name had failed, fallback included.
C4_Witness ==
    /\ pc = "returned"
    /\ \E n \in Nodes : \E p \in FailedSources(n) : FallbackExhausted(p) /\ Called(n)

\* ------------------------------------------------------------------ C5

\* C5: in the report execute returns, a node that ended Failed has an entry in
\* errors and none in results; after a failed fallback the entry is the
\* primary failure reason followed by the fallback-failure annotation.
C5_FailedNodesReported ==
    pc = "returned"
    => \A n \in Nodes :
          Failed(n)
          => /\ n \in DOMAIN errors
             /\ n \notin DOMAIN results
             /\ \A j \in CallsOf(n, "fallback") :
                   errors[n] = <<CallError(PrimaryCall(n).ep), FallbackFailed(calls[j].ep)>>

\* A report has been returned for a run in which a fallback call failed.
C5_Witness ==
    /\ pc = "returned"
    /\ \E n \in Nodes : Failed(n) /\ CallFailed(n, "fallback")

\* ------------------------------------------------------------------ C6

\* The endpoints found in a fallback field, as a string or inside an object.
EndpointsIn(v) ==
    IF v.kind = "str" THEN {v.s}
    ELSE IF v.kind = "dict" THEN {v.d.fallback.s}
    ELSE {}

CarriedFallbacks(n) ==
    UNION {EndpointsIn(x.fallback) : x \in {y \in Range(graph.edges) : y.to = n}}

\* C6: a node gets at most one primary and at most one fallback call; its
\* fallback call comes after its primary call has failed, goes to a fallback
\* endpoint carried for the node and not to its primary endpoint, with the
\* body of the primary call, and is the node's last call.
C6_CallDiscipline ==
    \A n \in Nodes :
        /\ Cardinality(CallsOf(n, "primary")) <= 1
        /\ Cardinality(CallsOf(n, "fallback")) <= 1
        /\ \A j \in CallsOf(n, "fallback") :
              /\ \E i \in CallsOf(n, "primary") :
                    /\ i < j
                    /\ svc[calls[i].ep] = "fail"
                    /\ calls[j].body = calls[i].body
                    /\ calls[j].ep # calls[i].ep
              /\ calls[j].ep \in CarriedFallbacks(n)
              /\ \A i \in 1..Len(calls) : calls[i].node = n => i <= j

\* A run has gone on to other nodes after a fallback call that carried a
\* non-empty body and failed.
C6_Witness ==
    \E j \in 1..Len(calls) :
        /\ calls[j].kind = "fallback"
        /\ DOMAIN calls[j].body # {}
        /\ svc[calls[j].ep] = "fail"
        /\ j < Len(calls)

\* ------------------------------------------------------------------ C7

\* C7: the failed primary call of a node that has a fallback path (its own
\* fallback or one on an inbound edge) does not make execute raise at that
\* node; the failure is recorded in errors.
C7_FallbackPathContainsFailure ==
    \A n \in Nodes :
        (CallFailed(n, "primary") /\ ConfiguredFallbacks(n) # {})
        => /\ ~RaisedAt(n)
           /\ n \in DOMAIN errors

\* ------------------------------------------------------------------ C8

\* C8: for a graph description with a cycle no call is ever issued and no
\* report is returned.
C8_CyclicGraphIssuesNoCall ==
    HasCycle => (calls = <<>> /\ pc # "returned")

\* ------------------------------------------------------------------ C9

\* C9: for a graph description with an edge naming an undeclared node no call
\* is ever issued and no report is returned.
C9_DanglingEdgeIssuesNoCall ==
    Dangling => (calls = <<>> /\ pc # "returned")

\* ------------------------------------------------------------------ C10

\* C10: once the primary call of a node has failed, a fallback call has been
\* issued for it if and only if the node or one of its inbound edges carries
\* a fallback, and it went to the node's own fallback when there is one, else
\* to the fallback of an inbound edge.
C10_FallbackFromNodeOrAnyEdge ==
    \A n \in Nodes :
        CallFailed(n, "primary")
        => /\ (CallsOf(n, "fallback") # {}) <=> (ConfiguredFallbacks(n) # {})
           /\ \A j \in CallsOf(n, "fallback") :
                 calls[j].ep \in (IF OwnFallbacks(n) # {} THEN OwnFallbacks(n)
                                  ELSE EdgeFallbacks(n))

\* ------------------------------------------------------------------ C11

\* The inputs mapping of a declared node, and of the node being handled.
InputSpecOf(n) == NodeAttrs(graph.nodes, n)["inputs"]
CurrentInputSpec == InputSpecOf(name)

\* C11 as claimed: the body of the primary call just issued maps every
\* declared key to the recorded result of its source when the source is an
\* upstream node (an ancestor) with a recorded result, else to the payload
\* entry of that name, else to None.
C11_InputsFromUpstreamOrPayload ==
    pc = "primary"
    => /\ DOMAIN calls[Len(calls)].body = DOMAIN CurrentInputSpec
       /\ \A k \in DOMAIN CurrentInputSpec :
             LET v == CurrentInputSpec[k]
             IN  calls[Len(calls)].body[k] =
                    IF Reaches(v, name) /\ v \in DOMAIN results
                    THEN results[v]
                    ELSE Get(payload, v)

\* C11 as amended: the body maps every declared key to the recorded result of
\* its source whenever results holds an entry of that name, upstream or not,
\* else to the payload entry of that name, else to None; and every declared
\* node the loop has reached has been called.
C11_InputsFromResultsOrPayload ==
    /\ pc = "primary"
       => /\ DOMAIN calls[Len(calls)].body = DOMAIN CurrentInputSpec
          /\ \A k \in DOMAIN CurrentInputSpec :
                LET v == CurrentInputSpec[k]
                IN  calls[Len(calls)].body[k] =
                       IF v \in DOMAIN results THEN results[v]
                       ELSE IF v \in DOMAIN payload THEN payload[v]
                       ELSE NoneV
    /\ \A n \in Declared : name = n => Called(n)

\* A call is awaited whose body holds the result of a node that is not
\* upstream of the called one, a payload value and a key nothing resolves.
C11_Witness ==
    /\ pc = "primary"
    /\ DOMAIN calls[Len(calls)].body # {}
    /\ \E k \in DOMAIN CurrentInputSpec :
          LET v == CurrentInputSpec[k]
          IN  v \in DOMAIN results /\ ~Reaches(v, name) /\ v \in DOMAIN payload
    /\ \E k \in DOMAIN CurrentInputSpec :
          /\ CurrentInputSpec[k] \notin DOMAIN results \cup DOMAIN payload
          /\ calls[Len(calls)].body[k] = NoneV
    /\ \E k \in DOMAIN CurrentInputSpec :
          /\ CurrentInputSpec[k] \in DOMAIN payload \ DOMAIN results
          /\ calls[Len(calls)].body[k] = payload[CurrentInputSpec[k]]

\* ------------------------------------------------------------------ C12

AllPrimariesOk == \A n \in Declared : svc[EndpointOf[n]] = "ok"

\* C12: on a valid DAG whose primary endpoints all answer, execute does not
\* raise and never stops short of returning (in the loop the generator yields
\* a node with an endpoint or is exhausted, and the call it awaits succeeds,
\* so its next step is a dispatch, a success or the return); the report has one
\* results entry per node, the output of that node's endpoint for the body it
\* was sent, the inputs fed by an ancestor being that ancestor's entry, and
\* errors is empty.
C12_AllSucceedReport ==
    (AllPrimariesOk /\ ValidDAG)
    => /\ pc # "raised"
       /\ pc = "loop"
          => \/ step.kind = "stop"
             \/ step.kind = "yield" /\ "endpoint" \in DOMAIN NodeAttrs(graph.nodes, step.node)
       /\ pc = "primary" => svc[service_url] = "ok"
       /\ pc # "fallback"
       /\ errors = EmptyDict
       /\ pc = "returned"
          => /\ DOMAIN results = Nodes
             /\ \A n \in Nodes :
                   /\ Cardinality(CallsOf(n, "primary")) = 1
                   /\ results[n] = Out(EndpointOf[n], PrimaryCall(n).body)
                   /\ \A k \in DOMAIN InputSpecOf(n) :
                         Reaches(InputSpecOf(n)[k], n)
                         => results[n].body[k] = results[InputSpecOf(n)[k]]

\* A report has been returned for a chain A -> B whose calls all succeeded,
\* B having been fed A's output.
C12_Witness ==
    /\ ValidDAG /\ AllPrimariesOk
    /\ pc = "returned"
    /\ "B" \in DOMAIN results
    /\ "a" \in DOMAIN results["B"].body
    /\ Reaches("A", "B")
    /\ results["B"].body["a"] = results["A"]

\* ------------------------------------------------------------------ C17

\* The state of a node in the run, told from the calls issued for it, from
\* the call execute is awaiting and from what the endpoints answered.
NodeState(n) ==
    IF CallsOf(n, "primary") = {} THEN "Pending"
    ELSE IF pc = "primary" /\ name = n THEN "Running"
    ELSE IF pc = "fallback" /\ name = n THEN "FallbackRunning"
    ELSE IF Succeeded(n) THEN "Succeeded"
    ELSE IF CallsOf(n, "fallback") # {} THEN "FallbackFailed"
    ELSE "Failed"

\* The changes of state between two suspension points.  The fallback call is
\* issued in the step that finds the primary call failed, so Failed is
\* passed through within the step from Running to FallbackRunning.
StateChanges ==
    {<<"Pending", "Running">>, <<"Running", "Succeeded">>, <<"Running", "Failed">>,
     <<"Running", "FallbackRunning">>, <<"FallbackRunning", "Succeeded">>,
     <<"FallbackRunning", "FallbackFailed">>}

\* C17: every step changes the state of a node along the allowed changes
\* only; an entry of results appears only in a step in which its node enters
\* Succeeded, equal to the output of the call of that node that succeeded,
\* and an entry once there is neither changed nor removed.
C17_NodeStateMachine ==
    [][\A n \in Nodes :
          /\ NodeState(n)' # NodeState(n) => <<NodeState(n), NodeState(n)'>> \in StateChanges
          /\ n \in DOMAIN results => (n \in DOMAIN results' /\ results'[n] = results[n])
          /\ (n \in DOMAIN results' /\ n \notin DOMAIN results)
             => /\ NodeState(n) # "Succeeded"
                /\ NodeState(n)' = "Succeeded"
                /\ \E i \in 1..Len(calls') :
                      /\ calls'[i].node = n
                      /\ svc[calls'[i].ep] = "ok"
                      /\ results'[n] = Out(calls'[i].ep, calls'[i].body)
          /\ (NodeState(n)' = "Succeeded" /\ NodeState(n) # "Succeeded")
             => n \in DOMAIN results']_vars

\* One node has succeeded through its fallback and a later node through its
\* primary call.
C17_Witness ==
    \E n, m \in Nodes :
        /\ n # m
        /\ NodeState(n) = "Succeeded" /\ CallsOf(n, "fallback") # {}
        /\ NodeState(m) = "Succeeded" /\ n \in DOMAIN results /\ m \in DOMAIN results

\* ------------------------------------------------------------------ C19

\* C19: no step of execute changes the graph description or the payload.
C19_InputsUntouched ==
    [][graph' = graph /\ payload' = payload]_vars

\* A run that resolved inputs from the payload has ended, by a report or by
\* an exception after a recorded result.
C19_Witness ==
    /\ Finished
    /\ DOMAIN results # {}
    /\ \E i \in 1..Len(calls) :
          \E k \in DOMAIN calls[i].body : \E v \in DOMAIN payload :
             calls[i].body[k] = payload[v]

\* ------------------------------------------------------------------ C18

\* C18: on a valid DAG execute ends, by returning a report or by raising; a
\* report it returns names every node of the graph in results or in errors.
C18_Terminates ==
    /\ ValidDAG => <>Finished
    /\ [](pc = "returned" => \A n \in Nodes : n \in DOMAIN results \cup DOMAIN errors)

\* A run on a valid DAG has returned a report with an entry in results and an
\* entry in errors.
C18_Witness ==
    /\ ValidDAG
    /\ pc = "returned"
    /\ DOMAIN results # {}
    /\ DOMAIN errors # {}

\* ------------------------------------------------------------------ C15

\* What run_graph hands to its caller (lines 144-146): the ExecuteResponse that
\* execute returned, or the exception that execute raised; nothing while
\* execute runs.
ResponsePartialReport ==
    IF Finished THEN [kind |-> "report", results |-> results, errors |-> errors]
    ELSE [kind |-> "none"]

Response ==
    IF pc = "returned" THEN [kind |-> "report", results |-> results, errors |-> errors]
    ELSE IF pc = "raised" THEN [kind |-> "exception", exc |-> exc]
    ELSE [kind |-> "none"]

\* The mark a node is said to get when the run ends before its dispatch.
SkippedMark(n) ==
    n \in DOMAIN errors /\ \E i \in 1..Len(errors[n]) : errors[n][i].tag = "skipped"

\* C15 as claimed: once a run has been cancelled or has aborted, no further
\* step of it issues a call, every node not yet dispatched is marked Skipped,
\* and the caller is handed a report that holds every recorded result.
C15_AbortKeepsPartialReport ==
    pc = "raised"
    => /\ ~ENABLED NextCancel
       /\ \A n \in Nodes : ~Called(n) => SkippedMark(n)
       /\ Response.kind = "report"
       /\ \A n \in DOMAIN results :
             n \in DOMAIN Response.results /\ Response.results[n] = results[n]

\* C15 as amended: once a run has been cancelled or has aborted, execute takes
\* no further step, so no node is called afterwards; no node is ever marked
\* Skipped, a node not yet dispatched has no entry in results or errors; and
\* the caller is handed the exception alone: the results and errors recorded
\* before the abort are local to execute and are dropped with it.  A run that
\* was cancelled never returns a report.
C15_AbortDiscardsRun ==
    /\ \A n \in Nodes : ~SkippedMark(n)
    /\ exc = "CancelledError" => pc = "raised"
    /\ Response.kind = "report" <=> pc = "returned"
    /\ pc = "raised"
       => /\ ~ENABLED NextCancel
          /\ \A n \in Nodes : ~Called(n) => n \notin DOMAIN results \cup DOMAIN errors
          /\ Response = [kind |-> "exception", exc |-> exc]

\* A run was cancelled while it awaited a call, after it had recorded a result
\* and before a node of the graph was dispatched.
C15_Witness ==
    /\ pc = "raised"
    /\ exc = "CancelledError"
    /\ DOMAIN results # {}
    /\ \E n \in Nodes : ~Called(n)

\* ------------------------------------------------------------------ C13

\* The two requests are the same request.
SameRequest == other.pc # "none" /\ other.graph = graph /\ other.payload = payload

\* C13: two runs of execute on the same graph and payload, against endpoints
\* whose answer is a function of the endpoint and the body sent, end the same
\* way with the same results and the same errors, however their steps were
\* interleaved; each ends as the run made alone ends.
C13_SameRequestSameReport ==
    (SameRequest /\ Finished /\ other.pc \in {"returned", "raised"})
    => /\ Outcome(other) = Outcome(Frame)
       /\ Outcome(Frame) = RunAlone(graph, payload, svc)

\* Two runs of the same request have both returned a report that holds a
\* result and an error.
C13_Witness ==
    /\ SameRequest
    /\ pc = "returned"
    /\ other.pc = "returned"
    /\ DOMAIN results # {}
    /\ DOMAIN errors # {}

\* ------------------------------------------------------------------ C14

\* Every entry of the mappings of a run comes from a call that run issued:
\* a result is the answer to one of its calls of the node, an error starts
\* with the failure of its primary call of the node.
OwnOutcomes(f) ==
    /\ \A n \in DOMAIN f.results :
          \E i \in 1..Len(f.calls) :
             f.calls[i].node = n /\ f.results[n] = Out(f.calls[i].ep, f.calls[i].body)
    /\ \A n \in DOMAIN f.errors :
          \E i \in 1..Len(f.calls) :
             /\ f.calls[i].node = n
             /\ f.calls[i].kind = "primary"
             /\ f.errors[n][1] = CallError(f.calls[i].ep)

\* C14: of two runs on the shared Orchestrator whose steps interleave at the
\* awaits, a step of one run changes nothing the other run holds; the
\* mappings of each run hold outcomes of its own calls only, and each run
\* ends as it would have ended alone.
C14_RunsShareNoState ==
    /\ [](\A f \in {Frame} \cup ({other} \ {NoRun}) :
            /\ OwnOutcomes(f)
            /\ f.pc \in {"returned", "raised"}
               => Outcome(f) = RunAlone(f.graph, f.payload, svc))
    /\ [][other' = other \/ (other' = Frame /\ Frame' = other)]_vars

\* A run has returned a report with a result in it while the run of another
\* request, suspended at an await, holds a result of its own.
C14_Witness ==
    /\ pc = "returned"
    /\ DOMAIN results # {}
    /\ other.pc \in {"primary", "fallback"}
    /\ DOMAIN other.results # {}
    /\ other.graph # graph
    /\ other.payload # payload

\* ------------------------------------------------------------------ batch-wise dispatch

\* The Scheduler the specification describes in place of the loop of line 104:
\* the graph is validated first; then, batch after batch, every node whose
\* predecessors are all terminal is dispatched, the calls of a batch are in
\* flight together (inflight) and are answered in any order, each answer
\* recording the outcome of its own node under one writer.  A node is handled
\* as lines 105-130 handle it; a failure that raises there cancels the calls
\* in flight and ends the run.
Done == DOMAIN results \cup DOMAIN errors

BatchReady == {n \in Nodes : n \notin Done /\ \A p \in PredSet(n) : p \in Done}

Remove(d, k) == [x \in DOMAIN d \ {k} |-> d[x]]

AfterAnswer(d) == IF DOMAIN d = {} THEN "loop" ELSE "await"

BatchReject ==
    /\ pc = "loop"
    /\ ~ValidDAG
    /\ pc' = "raised"
    /\ exc' = "GraphValidationError"
    /\ UNCHANGED <<inflight, other, graph, payload, svc, name, inputs, fallback, results,
                   errors, indegree_map, zero_indegree, this_generation, calls>>

BatchDispatch ==
    /\ pc = "loop"
    /\ ValidDAG
    /\ BatchReady # {}
    /\ inflight' =
          [n \in BatchReady |->
              Call(n, "primary", NodeAttrs(graph.nodes, n)["endpoint"].s,
                   ResolveInputs(NodeAttrs(graph.nodes, n)["inputs"], results, payload))]
    /\ LET batch == SelectSeq(GNodes(graph), LAMBDA v : v \in BatchReady)
       IN  calls' = calls \o [i \in 1..Len(batch) |-> inflight'[batch[i]]]
    /\ pc' = "await"
    /\ UNCHANGED <<other, graph, payload, svc, exc, name, inputs, fallback, results,
                   errors, indegree_map, zero_indegree, this_generation>>

BatchReturn ==
    /\ pc = "loop"
    /\ ValidDAG
    /\ BatchReady = {}
    /\ pc' = "returned"
    /\ UNCHANGED <<inflight, other, graph, payload, svc, exc, name, inputs, fallback,
                   results, errors, indegree_map, zero_indegree, this_generation, calls>>

BatchPrimaryOk ==
    \E n \in DOMAIN inflight :
       /\ pc = "await"
       /\ inflight[n].kind = "primary"
       /\ svc[inflight[n].ep] = "ok"
       /\ results' = Put(results, n, Out(inflight[n].ep, inflight[n].body))
       /\ inflight' = Remove(inflight, n)
       /\ pc' = AfterAnswer(inflight')
       /\ UNCHANGED <<other, graph, payload, svc, exc, name, inputs, fallback, errors,
                      indegree_map, zero_indegree, this_generation, calls>>

BatchPrimaryFailRaises ==
    \E n \in DOMAIN inflight :
       /\ pc = "await"
       /\ inflight[n].kind = "primary"
       /\ svc[inflight[n].ep] = "fail"
       /\ FallbackLookup(graph, n).exc # "none" \/ FallbackLookup(graph, n).value = NoneV
       /\ errors' = Put(errors, n, <<CallError(inflight[n].ep)>>)
       /\ inflight' = EmptyDict
       /\ pc' = "raised"
       /\ exc' = IF FallbackLookup(graph, n).exc # "none"
                 THEN FallbackLookup(graph, n).exc ELSE "HTTPException"
       /\ UNCHANGED <<other, graph, payload, svc, name, inputs, fallback, results,
                      indegree_map, zero_indegree, this_generation, calls>>

BatchPrimaryFailTryFallback ==
    \E n \in DOMAIN inflight :
       /\ pc = "await"
       /\ inflight[n].kind = "primary"
       /\ svc[inflight[n].ep] = "fail"
       /\ FallbackLookup(graph, n).exc = "none"
       /\ FallbackLookup(graph, n).value # NoneV
       /\ errors' = Put(errors, n, <<CallError(inflight[n].ep)>>)
       /\ inflight' = [inflight EXCEPT ![n] =
                          Call(n, "fallback", FallbackLookup(graph, n).value.s, @.body)]
       /\ calls' = Append(calls, inflight'[n])
       /\ UNCHANGED <<other, graph, payload, svc, pc, exc, name, inputs, fallback, results,
                      indegree_map, zero_indegree, this_generation>>

BatchFallbackOk ==
    \E n \in DOMAIN inflight :
       /\ pc = "await"
       /\ inflight[n].kind = "fallback"
       /\ svc[inflight[n].ep] = "ok"
       /\ results' = Put(results, n, Out(inflight[n].ep, inflight[n].body))
       /\ inflight' = Remove(inflight, n)
       /\ pc' = AfterAnswer(inflight')
       /\ UNCHANGED <<other, graph, payload, svc, exc, name, inputs, fallback, errors,
                      indegree_map, zero_indegree, this_generation, calls>>

BatchFallbackFail ==
    \E n \in DOMAIN inflight :
       /\ pc = "await"
       /\ inflight[n].kind = "fallback"
       /\ svc[inflight[n].ep] = "fail"
       /\ errors' = [errors EXCEPT ![n] = Append(@, FallbackFailed(inflight[n].ep))]
       /\ inflight' = Remove(inflight, n)
       /\ pc' = AfterAnswer(inflight')
       /\ UNCHANGED <<other, graph, payload, svc, exc, name, inputs, fallback, results,
                      indegree_map, zero_indegree, this_generation, calls>>

\* The requests of the batch specification: each node with its own inputs
\* mapping (none, or the one that names upstream results), over edge lists
\* that put the nodes in one batch, in two or in three (in the order of the
\* node list or against it), or make a self-loop.
BatchEdgeLists ==
    {<<>>,
     <<[from |-> "A", to |-> "B", fallback |-> NoneV]>>,
     <<[from |-> "A", to |-> "fallback", fallback |-> Dict(FallbackEndpoint)]>>,
     <<[from |-> "A", to |-> "B", fallback |-> NoneV],
       [from |-> "A", to |-> "fallback", fallback |-> Dict(FallbackEndpoint)]>>,
     <<[from |-> "B", to |-> "fallback", fallback |-> Dict(FallbackEndpoint)],
       [from |-> "A", to |-> "B", fallback |-> NoneV]>>,
     <<[from |-> "A", to |-> "fallback", fallback |-> Dict(FallbackEndpoint)],
       [from |-> "fallback", to |-> "B", fallback |-> NoneV]>>,
     <<[from |-> "B", to |-> "B", fallback |-> NoneV]>>}

BatchGraphs ==
    {[nodes |-> [i \in 1..Len(ns) |->
                    [name |-> ns[i], endpoint |-> EndpointOf[ns[i]],
                     inputs |-> ins[ns[i]], fallback |-> NoneV]],
      edges |-> es] :
        ns \in NodeLists, ins \in [Names -> InputSpecs], es \in BatchEdgeLists}

InitBatch ==
    /\ graph \in BatchGraphs
    /\ payload \in Payloads
    /\ Start
    /\ other = NoRun
    /\ inflight = EmptyDict

NextBatch ==
    \/ BatchReject
    \/ BatchDispatch
    \/ BatchReturn
    \/ BatchPrimaryOk
    \/ BatchPrimaryFailRaises
    \/ BatchPrimaryFailTryFallback
    \/ BatchFallbackOk
    \/ BatchFallbackFail

SpecBatch == InitBatch /\ [][NextBatch]_vars

\* ------------------------------------------------------------------ C16

\* The sequential execution of the request: execute as the code runs it.
Sequential == RunAlone(graph, payload, svc)

\* The batch a node is dispatched in: 1 for a node without predecessor, else
\* one more than the latest batch of a predecessor.
RECURSIVE BatchOf(_)
BatchOf(n) ==
    IF PredSet(n) = {} THEN 1
    ELSE LET bs == {BatchOf(p) : p \in PredSet(n)}
         IN  1 + CHOOSE b \in bs : \A c \in bs : c <= b

\* No node's inputs name another node of its own batch.
BatchesIndependent ==
    \A n \in Declared : \A v \in InputSources(n) \cap Nodes :
        v # n => BatchOf(v) # BatchOf(n)

====
